---- MODULE Spec2Model ----
(***************************************************************************)
(* Verification model of uww-net: the unique wallpaper collector           *)
(* (wallpaper_scraper.get_unique_wallpapers), the multi-monitor stitcher   *)
(* (image_utils.stitch_images_for_monitors) and the centred aspect crop    *)
(* (image_utils.crop_image_to_aspect).                                     *)
(***************************************************************************)
EXTENDS Integers, Sequences, FiniteSets, TLC

(***************************************************************************)
(* Bounds                                                                  *)
(***************************************************************************)
MaxCount == 3
MaxShuffles == 3
MaxListing == 2

(***************************************************************************)
(* Values                                                                  *)
(***************************************************************************)
\* Python None / a present value, as a sequence of length 0 / 1.
None == <<>>
Some(v) == <<v>>

URLs == {"u1", "u2", "u3"}
\* What el.get_attribute("href") can do for one element: give a URL, give an
\* empty/absent href, or raise (stale element).
EmptyHref == ""
StaleElement == "STALE"
Hrefs == URLs \cup {EmptyHref, StaleElement}

\* Outcomes of fetch_image_dimensions: (None, None) or (width, height).
DimOutcomes == {<<None, None>>, <<Some(2560), Some(1080)>>}

SeqsUpTo(S, n) == UNION {[1..k -> S] : k \in 0..n}
Listings == SeqsUpTo(Hrefs, MaxListing)

RECURSIVE GCD(_, _)
GCD(a, b) == IF b = 0 THEN a ELSE GCD(b, a % b)

Sign(x) == IF x > 0 THEN 1 ELSE IF x < 0 THEN 0 - 1 ELSE 0

(***************************************************************************)
(* Python floats are IEEE-754 doubles: 53 significant bits, every          *)
(* operation rounded to the nearest double, ties to even.  A double is     *)
(* never stored here; what is kept of a quotient n / d is how far the      *)
(* double lies from the rational n/d, which long division gives in small   *)
(* integers.                                                               *)
(***************************************************************************)
\* n/d scaled by a power of two into [1, 2): Normalise(n, d, 0) is
\* <<n', d', e>> with d' <= n' < 2 * d' and n/d = (n'/d') * 2^e.
RECURSIVE Normalise(_, _, _)
Normalise(n, d, e) ==
    IF 2 * d <= n THEN Normalise(n, 2 * d, e + 1)
    ELSE IF n < d THEN Normalise(2 * n, d, e - 1)
    ELSE <<n, d, e>>

\* k more quotient bits of r/d (r < d): <<remainder, last bit>>.
RECURSIVE DivBits(_, _, _, _)
DivBits(r, d, k, lsb) ==
    IF k = 0 THEN <<r, lsb>>
    ELSE IF 2 * r >= d THEN DivBits(2 * r - d, d, k - 1, 1)
    ELSE DivBits(2 * r, d, k - 1, 0)

\* The float division n / d (n, d > 0): the double equals
\* n/d + (c/d') * 2^(e - 52), the 52 bits after the leading one rounded to
\* nearest, ties to even.
TrueDiv(n, d) ==
    LET nm == Normalise(n, d, 0)
        dd == nm[2]
        rb == DivBits(nm[1] - dd, dd, 52, 1)
        r == rb[1]
    IN  [c |-> IF r = 0 THEN 0
               ELSE IF 2 * r < dd \/ (2 * r = dd /\ rb[2] = 0) THEN 0 - r
               ELSE dd - r,
         d |-> dd,
         e |-> nm[3]]

\* The sign of x * 2^m - y for x, y >= 0, without forming the power.
RECURSIVE CmpScaled(_, _, _)
CmpScaled(x, m, y) ==
    IF m = 0 THEN Sign(x - y)
    ELSE IF m > 0 THEN (IF x > y THEN 1 ELSE CmpScaled(2 * x, m - 1, y))
    ELSE (IF y > x THEN 0 - 1 ELSE CmpScaled(x, m + 1, 2 * y))

\* round() of a double lying next to the rational q + r/d (0 <= r < d): off
\* a tie the nearest integer; on a tie the side the double leans to
\* (lean = 1 above, -1 below), and the even integer when the double is the
\* tie itself (lean = 0).
Round(q, r, d, lean) ==
    IF 2 * r < d THEN q
    ELSE IF 2 * r > d THEN q + 1
    ELSE IF lean > 0 THEN q + 1
    ELSE IF lean < 0 THEN q
    ELSE IF q % 2 = 0 THEN q ELSE q + 1

\* `not v` for an optional integer: None and 0 are falsy.
Falsy(v) == v = None \/ v[1] = 0

\* width // g and height // g for g = math.gcd(width, height).
ReducedPair_Unreduced(w, h) == <<w, h>>
ReducedPair(w, h) ==
    LET g == GCD(w, h)
    IN  <<w \div g, h \div g>>

\* The f-string f"{a}:{b}".
FormatRatio_Swapped(a, b) == ToString(b) \o ":" \o ToString(a)
FormatRatio(a, b) == ToString(a) \o ":" \o ToString(b)

\* image_utils.simplify_ratio.
simplify_ratio(width, height) ==
    IF Falsy(width) \/ Falsy(height) THEN None
    ELSE LET r == ReducedPair(width[1], height[1])
         IN  Some(FormatRatio(r[1], r[2]))

\* monitors._simplify_ratio, the same reduction kept as a private copy.
monitors_simplify_ratio(width, height) ==
    IF Falsy(width) \/ Falsy(height) THEN None
    ELSE LET r == ReducedPair(width[1], height[1])
         IN  Some(FormatRatio(r[1], r[2]))

\* MonitorInfo.aspect_ratio of a monitor record.
aspect_ratio(m) == monitors_simplify_ratio(m.width, m.height)

\* round(width / height, 4) if width and height else None, in ten-thousandths:
\* the double width / height is rounded to four decimals, so on a decimal tie
\* the double's own rounding error decides.
aspect_ratio_float(width, height) ==
    IF width = None \/ height = None THEN None
    ELSE IF width[1] = 0 \/ height[1] = 0 THEN None
    ELSE LET n == width[1] * 10000
             r == n % height[1]
         IN  Some(Round(n \div height[1], r, height[1],
                        IF 2 * r = height[1]
                        THEN Sign(TrueDiv(width[1], height[1]).c) ELSE 0))

\* The dict appended to collected.
Candidate(image_url, dims) ==
    [image_url |-> image_url,
     width |-> dims[1],
     height |-> dims[2],
     aspect_ratio |-> simplify_ratio(dims[1], dims[2]),
     aspect_ratio_float |-> aspect_ratio_float(dims[1], dims[2])]

CollectedUrls(coll) == {coll[i].image_url : i \in 1..Len(coll)}

\* The filter of line 72: not image_url or image_url in skip_urls or already collected.
ShouldSkip_NoDedup(image_url, skip, coll) ==
    \/ image_url = EmptyHref
    \/ image_url \in skip
ShouldSkip(image_url, skip, coll) ==
    \/ image_url = EmptyHref
    \/ image_url \in skip
    \/ \E i \in 1..Len(coll) : coll[i].image_url = image_url

\* The while condition of line 48.
LoopCond_OffByOne(coll, cnt, att, maxs) == Len(coll) < cnt /\ att <= maxs
LoopCond(coll, cnt, att, maxs) == Len(coll) < cnt /\ att < maxs

\* The test of lines 68-69 that leaves the for loop over the listing.
ForLoopBreak_Never(coll, cnt) == FALSE
ForLoopBreak(coll, cnt) == Len(coll) >= cnt

\* break (lines 59, 66) leaves the loop with collected untouched.
KeepOnBreak_Discard(coll) == <<>>
KeepOnBreak(coll) == coll

\* finally: driver.quit() runs whatever is pending (return or exception).
QuitsAfterFinally_OnlyOnReturnOfLoop(q, pend) ==
    IF pend.kind = "returned" /\ pend.via = "loop" THEN q + 1 ELSE q
QuitsAfterFinally(q, pend) == q + 1

(***************************************************************************)
(* State of one call of get_unique_wallpapers                              *)
(***************************************************************************)
VARIABLES
    pc,                 \* position in get_unique_wallpapers
    count, skip_urls, max_shuffles,   \* arguments
    driver,             \* "none" | "open" | "quit"
    collected, attempts,
    wallpaper_elements, \* elements the for loop has still to visit
    pending,            \* return value / exception waiting for the finally block
    outcome,            \* how the call ended
    script,             \* the remote: free, or a fixed recording of its answers
    nShuffles, nLists, nFetches, quits,   \* operations performed so far
    usedAfterQuit,      \* a session operation was performed on a released driver
    failure,            \* snapshot taken when a reshuffle or a listing failed
    fetched,            \* width, height of line 74, between the fetch and the append
    sessions,           \* browser sessions webdriver.Chrome has started
    run, first          \* which call this is, and what the first call gave

collectorVars == <<pc, count, skip_urls, max_shuffles, driver, collected, attempts,
                   wallpaper_elements, pending, outcome, script, nShuffles, nLists,
                   nFetches, quits, usedAfterQuit, failure, run, first, fetched,
                   sessions>>

NoPending == [kind |-> "none", via |-> "none", value |-> <<>>]
NoFailure == [kind |-> "none", collected |-> <<>>, attempts |-> 0,
              nShuffles |-> 0, nLists |-> 0, nFetches |-> 0]
NoDims == <<None, None>>
NoFirst == [done |-> FALSE, kind |-> "none", len |-> 0, max_shuffles |-> 0]

LoadOutcomes == {"ok", "timeout", "raise"}
ShuffleOutcomes ==
    {[kind |-> "shuffle_fail", links |-> <<>>], [kind |-> "list_fail", links |-> <<>>]}
    \cup {[kind |-> "ok", links |-> l] : l \in Listings}

FreeRemote == [on |-> FALSE, load |-> "ok", shuffles |-> <<>>]

\* The answer of the remote to the k-th reshuffle.
RemoteAnswers(k) ==
    IF script.on /\ k <= Len(script.shuffles) THEN {script.shuffles[k]}
    ELSE ShuffleOutcomes
RemoteLoads == IF script.on THEN {script.load} ELSE LoadOutcomes

CallInit ==
    /\ pc = "call"
    /\ driver = "none"
    /\ collected = <<>>
    /\ attempts = 0
    /\ wallpaper_elements = <<>>
    /\ pending = NoPending
    /\ outcome = NoPending
    /\ nShuffles = 0 /\ nLists = 0 /\ nFetches = 0 /\ quits = 0
    /\ usedAfterQuit = FALSE
    /\ failure = NoFailure
    /\ fetched = NoDims
    /\ sessions = 0

\* The arguments are plain ints: zero and negative values are passed too.
CollectorInit ==
    /\ count \in -1..MaxCount
    /\ skip_urls \in SUBSET URLs
    /\ max_shuffles \in -1..MaxShuffles
    /\ script = FreeRemote
    /\ run = 1
    /\ first = NoFirst
    /\ CallInit

SessionOp == usedAfterQuit' = (usedAfterQuit \/ driver # "open")

\* lines 29-31: count <= 0 returns [] before any driver exists.
Call ==
    /\ pc = "call"
    /\ IF count <= 0
       THEN /\ pc' = "done"
            /\ outcome' = [kind |-> "returned", via |-> "trivial", value |-> <<>>]
       ELSE /\ pc' = "init"
            /\ UNCHANGED outcome
    /\ UNCHANGED <<count, skip_urls, max_shuffles, driver, collected, attempts,
                   wallpaper_elements, pending, script, nShuffles, nLists, nFetches,
                   quits, usedAfterQuit, failure, run, first, fetched, sessions>>

\* What one webdriver.Chrome(...) call can do: start a session and return it,
\* raise an Exception with nothing left behind, or raise one after the browser
\* was started and leave that session behind.  With a recorded remote the two
\* calls compared start their browsers alike: a failure leaves nothing behind.
ChromeOutcomes ==
    IF script.on THEN {"created", "failed"}
    ELSE {"created", "failed", "failed_open"}

\* line 32, _init_driver lines 139-142: the first webdriver.Chrome(...), inside
\* the redirected output.  An Exception goes to the second try of lines 143-147.
InitDriver ==
    /\ pc = "init"
    /\ \E o \in ChromeOutcomes :
         /\ sessions' = IF o = "failed" THEN sessions ELSE sessions + 1
         /\ pc' = IF o = "created" THEN "bind" ELSE "retry"
    /\ UNCHANGED <<count, skip_urls, max_shuffles, driver, collected, attempts,
                   wallpaper_elements, pending, outcome, script, nShuffles, nLists,
                   nFetches, quits, usedAfterQuit, failure, run, first, fetched>>

\* _init_driver lines 143-150: the second webdriver.Chrome(...); its Exception
\* becomes the RuntimeError that leaves get_unique_wallpapers at line 32.
RetryDriver ==
    /\ pc = "retry"
    /\ \E o \in ChromeOutcomes :
         /\ sessions' = IF o = "failed" THEN sessions ELSE sessions + 1
         /\ IF o = "created"
            THEN pc' = "bind" /\ UNCHANGED outcome
            ELSE /\ pc' = "done"
                 /\ outcome' = [kind |-> "raised", via |-> "init", value |-> <<>>]
    /\ UNCHANGED <<count, skip_urls, max_shuffles, driver, collected, attempts,
                   wallpaper_elements, pending, script, nShuffles, nLists, nFetches,
                   quits, usedAfterQuit, failure, run, first, fetched>>

\* lines 32-34: _init_driver has returned; driver is bound, collected = [] and
\* the try of line 34 is entered.
BindDriver ==
    /\ pc = "bind"
    /\ driver' = "open"
    /\ collected' = <<>>
    /\ pc' = "load"
    /\ UNCHANGED <<count, skip_urls, max_shuffles, attempts, wallpaper_elements,
                   pending, outcome, script, nShuffles, nLists, nFetches, quits,
                   usedAfterQuit, failure, run, first, fetched, sessions>>

\* A KeyboardInterrupt before the try of line 34 (on entry, at the test of
\* line 29 whatever count is, inside webdriver.Chrome, while _init_driver
\* returns, or at lines 32-33): no except clause and no finally block is around
\* it, it leaves get_unique_wallpapers as it is, with whatever session has
\* been started.
InterruptInit ==
    /\ pc \in {"call", "init", "retry", "bind"}
    /\ outcome' = [kind |-> "raised", via |-> IF pc = "call" THEN "entry" ELSE "init",
                   value |-> <<>>]
    /\ pc' = "done"
    /\ UNCHANGED <<count, skip_urls, max_shuffles, driver, collected, attempts,
                   wallpaper_elements, pending, script, nShuffles, nLists, nFetches,
                   quits, usedAfterQuit, failure, run, first, fetched, sessions>>

\* lines 35-47: driver.get, wait for the gallery, attempts = 0.
LoadGallery ==
    /\ pc = "load"
    /\ SessionOp
    /\ \E o \in RemoteLoads :
         CASE o = "ok" ->
                /\ attempts' = 0
                /\ pc' = "loop"
                /\ UNCHANGED pending
           [] o = "timeout" ->
                /\ pending' = [kind |-> "returned", via |-> "load", value |-> <<>>]
                /\ pc' = "finally"
                /\ UNCHANGED attempts
           [] o = "raise" ->
                /\ pending' = [kind |-> "raised", via |-> "load", value |-> <<>>]
                /\ pc' = "finally"
                /\ UNCHANGED attempts
    /\ UNCHANGED <<count, skip_urls, max_shuffles, driver, collected,
                   wallpaper_elements, outcome, script, nShuffles, nLists, nFetches,
                   quits, failure, run, first, fetched, sessions>>

\* line 48
LoopTest ==
    /\ pc = "loop"
    /\ pc' = IF LoopCond(collected, count, attempts, max_shuffles) THEN "shuffle" ELSE "exit"
    /\ UNCHANGED <<count, skip_urls, max_shuffles, driver, collected, attempts,
                   wallpaper_elements, pending, outcome, script, nShuffles, nLists,
                   nFetches, quits, usedAfterQuit, failure, run, first, fetched, sessions>>

\* lines 50-59: wait for the shuffle button and click; break on failure.
Shuffle ==
    /\ pc = "shuffle"
    /\ SessionOp
    /\ nShuffles' = nShuffles + 1
    /\ \E o \in RemoteAnswers(attempts + 1) :
         IF o.kind = "shuffle_fail"
         THEN /\ failure' = [kind |-> "shuffle", collected |-> collected,
                             attempts |-> attempts, nShuffles |-> nShuffles + 1,
                             nLists |-> nLists, nFetches |-> nFetches]
              /\ collected' = KeepOnBreak(collected)
              /\ pc' = "exit"
         ELSE /\ pc' = "sleep"
              /\ UNCHANGED <<failure, collected>>
    /\ UNCHANGED <<count, skip_urls, max_shuffles, driver, attempts, wallpaper_elements,
                   pending, outcome, script, nLists, nFetches, quits, run, first,
                   fetched, sessions>>

\* lines 55 and 60: time.sleep(2) is over, attempts += 1.
CountAttempt ==
    /\ pc = "sleep"
    /\ attempts' = attempts + 1
    /\ pc' = "list"
    /\ UNCHANGED <<count, skip_urls, max_shuffles, driver, collected,
                   wallpaper_elements, pending, outcome, script, nShuffles, nLists,
                   nFetches, quits, usedAfterQuit, failure, run, first, fetched, sessions>>

\* lines 61-66: driver.find_elements; break on failure.
ListLinks ==
    /\ pc = "list"
    /\ SessionOp
    /\ nLists' = nLists + 1
    /\ \E o \in RemoteAnswers(attempts) :
         /\ o.kind # "shuffle_fail"
         /\ IF o.kind = "list_fail"
            THEN /\ failure' = [kind |-> "list", collected |-> collected,
                                attempts |-> attempts, nShuffles |-> nShuffles,
                                nLists |-> nLists + 1, nFetches |-> nFetches]
                 /\ collected' = KeepOnBreak(collected)
                 /\ pc' = "exit"
                 /\ UNCHANGED wallpaper_elements
            ELSE /\ wallpaper_elements' = o.links
                 /\ pc' = "elems"
                 /\ UNCHANGED <<failure, collected>>
    /\ UNCHANGED <<count, skip_urls, max_shuffles, driver, attempts, pending, outcome,
                   script, nShuffles, nFetches, quits, run, first, fetched, sessions>>

\* lines 67-72 and 86-88: the head of the for loop, el.get_attribute and the
\* filter; an element that raises or is filtered out is passed over.
Element ==
    /\ pc = "elems"
    /\ IF wallpaper_elements = <<>> \/ ForLoopBreak(collected, count)
       THEN /\ pc' = "loop"
            /\ wallpaper_elements' = <<>>
            /\ UNCHANGED usedAfterQuit
       ELSE LET image_url == Head(wallpaper_elements)
            IN  /\ SessionOp
                /\ IF image_url = StaleElement \/ ShouldSkip(image_url, skip_urls, collected)
                   THEN /\ wallpaper_elements' = Tail(wallpaper_elements)
                        /\ pc' = "elems"
                   ELSE /\ pc' = "fetch"
                        /\ UNCHANGED wallpaper_elements
    /\ UNCHANGED <<count, skip_urls, max_shuffles, driver, collected, attempts, pending,
                   outcome, script, nShuffles, nLists, nFetches, quits, failure, run,
                   first, fetched, sessions>>

\* line 74: fetch_image_dimensions, an HTTP request that ends with the size or
\* with (None, None).
Fetch ==
    /\ pc = "fetch"
    /\ nFetches' = nFetches + 1
    /\ fetched' \in DimOutcomes
    /\ pc' = "append"
    /\ UNCHANGED <<count, skip_urls, max_shuffles, driver, collected, attempts,
                   wallpaper_elements, pending, outcome, script, nShuffles, nLists,
                   quits, usedAfterQuit, failure, run, first,
                   sessions>>

\* lines 75-85: simplify_ratio and collected.append for the element in hand.
AppendCandidate ==
    /\ pc = "append"
    /\ collected' = Append(collected, Candidate(Head(wallpaper_elements), fetched))
    /\ wallpaper_elements' = Tail(wallpaper_elements)
    /\ fetched' = NoDims
    /\ pc' = "elems"
    /\ UNCHANGED <<count, skip_urls, max_shuffles, driver, attempts, pending, outcome,
                   script, nShuffles, nLists, nFetches, quits, usedAfterQuit, failure,
                   run, first, sessions>>

\* lines 91-93: return collected.
Exit ==
    /\ pc = "exit"
    /\ pending' = [kind |-> "returned", via |-> "loop", value |-> collected]
    /\ pc' = "finally"
    /\ UNCHANGED <<count, skip_urls, max_shuffles, driver, collected, attempts,
                   wallpaper_elements, outcome, script, nShuffles, nLists, nFetches,
                   quits, usedAfterQuit, failure, run, first, fetched, sessions>>

\* An exception that "except Exception" does not catch (KeyboardInterrupt)
\* escapes the try of line 34 at any statement, the gallery load and the waits
\* of lines 55 and 74 included, and reaches the finally block; the frame's
\* width and height are dropped.
Interrupt ==
    /\ pc \in {"load", "loop", "shuffle", "sleep", "list", "elems", "fetch", "append",
               "exit"}
    /\ pending' = [kind |-> "raised", via |-> IF pc = "load" THEN "load" ELSE "loop",
                   value |-> <<>>]
    /\ fetched' = NoDims
    /\ pc' = "finally"
    /\ UNCHANGED <<count, skip_urls, max_shuffles, driver, collected, attempts,
                   wallpaper_elements, outcome, script, nShuffles, nLists, nFetches,
                   quits, usedAfterQuit, failure, run, first,
                   sessions>>

\* lines 94-95: driver.quit(), then the pending return or exception takes
\* effect; an exception of quit() replaces it.  A KeyboardInterrupt that
\* arrives in the finally block before quit() is called leaves with the
\* driver still open.
Finally ==
    /\ pc = "finally"
    /\ \E o \in {"quit_ok", "quit_raises", "interrupted"} :
         /\ quits' = IF o = "interrupted" THEN quits
                     ELSE QuitsAfterFinally(quits, pending)
         /\ outcome' = CASE o = "quit_ok" -> pending
                         [] o = "quit_raises" ->
                              [kind |-> "raised", via |-> "quit", value |-> <<>>]
                         [] o = "interrupted" ->
                              [kind |-> "raised", via |-> "finally", value |-> <<>>]
    /\ driver' = IF quits' > quits THEN "quit" ELSE driver
    /\ pc' = "done"
    /\ UNCHANGED <<count, skip_urls, max_shuffles, collected, attempts,
                   wallpaper_elements, pending, script, nShuffles, nLists, nFetches,
                   usedAfterQuit, failure, run, first, fetched, sessions>>

CollectorNext ==
    \/ Call \/ InitDriver \/ RetryDriver \/ BindDriver \/ InterruptInit
    \/ LoadGallery \/ LoopTest \/ Shuffle \/ CountAttempt \/ ListLinks \/ Element
    \/ Fetch \/ AppendCandidate \/ Exit \/ Interrupt \/ Finally

\* A second call against the same recorded remote, with another max_shuffles.
Replay ==
    /\ pc = "done"
    /\ run = 1
    /\ first' = [done |-> TRUE, kind |-> outcome.kind, len |-> Len(outcome.value),
                 max_shuffles |-> max_shuffles]
    /\ run' = 2
    /\ max_shuffles' \in 0..MaxShuffles
    /\ pc' = "call"
    /\ driver' = "none"
    /\ collected' = <<>>
    /\ attempts' = 0
    /\ wallpaper_elements' = <<>>
    /\ pending' = NoPending
    /\ outcome' = NoPending
    /\ nShuffles' = 0 /\ nLists' = 0 /\ nFetches' = 0 /\ quits' = 0
    /\ usedAfterQuit' = FALSE
    /\ failure' = NoFailure
    /\ fetched' = NoDims
    /\ sessions' = 0
    /\ UNCHANGED <<count, skip_urls, script>>

\* Recorded remotes used for the two-call comparison.
MonoOutcomes ==
    {[kind |-> "shuffle_fail", links |-> <<>>],
     [kind |-> "list_fail", links |-> <<>>],
     [kind |-> "ok", links |-> <<"u2", StaleElement, "u1">>],
     [kind |-> "ok", links |-> <<EmptyHref, "u3">>]}

(***************************************************************************)
(* image_utils.stitch_images_for_monitors                                  *)
(***************************************************************************)
MaxMonitors == 2

\* MonitorInfo records (monitors.py): offsets may be negative, sizes are positive.
MonitorChoices ==
    {[x |-> 0, y |-> 0, width |-> 1920, height |-> 1080],
     [x |-> 1920, y |-> 0, width |-> 1920, height |-> 1080],
     [x |-> -1920, y |-> 0, width |-> 1920, height |-> 1080],
     [x |-> 0, y |-> -1440, width |-> 2560, height |-> 1440],
     [x |-> 1920, y |-> -360, width |-> 2560, height |-> 1440],
     [x |-> -2560, y |-> 1080, width |-> 2560, height |-> 1080]}

\* What a path holds: a file Image.open rejects, a file that opens but whose
\* pixel data cannot be loaded (resize / paste raise), or a good image.
ImageSizes == {<<1920, 1080>>, <<2560, 1440>>}
ImageFiles ==
    {[kind |-> "unreadable", size |-> <<0, 0>>]}
    \cup [kind : {"truncated", "ok"}, size : ImageSizes]

NoneResult == "None"
OutputPath == "output_path"

\* min(...) and max(...) over a non-empty collection of integers.
SetMin(S) == CHOOSE v \in S : \A u \in S : v <= u
SetMax(S) == CHOOSE v \in S : \A u \in S : v >= u

\* lines 284-287
BoundingBox(ms) ==
    [min_x |-> SetMin({ms[k].x : k \in 1..Len(ms)}),
     min_y |-> SetMin({ms[k].y : k \in 1..Len(ms)}),
     max_x |-> SetMax({ms[k].x + ms[k].width : k \in 1..Len(ms)}),
     max_y |-> SetMax({ms[k].y + ms[k].height : k \in 1..Len(ms)})]

\* lines 289-296: Image.new('RGB', (total_width, total_height)).
NewCanvas(bb) == [width |-> bb.max_x - bb.min_x, height |-> bb.max_y - bb.min_y]

\* lines 307-308
PastePos_Absolute(monitor, bb) == <<monitor.x, monitor.y>>
PastePos(monitor, bb) == <<monitor.x - bb.min_x, monitor.y - bb.min_y>>

\* line 273
LengthsDiffer_OnlyFewerImages(n_images, n_monitors) == n_images < n_monitors
LengthsDiffer(n_images, n_monitors) == n_images # n_monitors

\* lines 315-318: a failure inside the per-image try returns None.
AfterImageFailure_Continue == "images"
AfterImageFailure == "done"

MinOf(a, b) == IF a < b THEN a ELSE b

VARIABLES
    spc,                \* position in stitch_images_for_monitors
    image_paths,        \* what each path holds
    monitors,
    deps_ok,            \* requests and PIL are importable
    out_writable,       \* output_path can be written
    bbox, canvas,       \* None until computed / allocated
    pastes,             \* the pastes made on the canvas, in order
    s_i,                \* index of the (image, monitor) pair processed next
    opened,             \* number of Image.open calls
    failedAt,           \* index of the pair whose processing failed, 0 if none
    written,            \* output_path has been written
    sresult

stitchVars == <<spc, image_paths, monitors, deps_ok, out_writable, bbox, canvas,
                pastes, s_i, opened, failedAt, written, sresult>>

StitchStart ==
    /\ bbox = None /\ canvas = None /\ pastes = <<>>
    /\ s_i = 1 /\ opened = 0 /\ failedAt = 0
    /\ written = FALSE
    /\ sresult = "pending"

StitchInit ==
    /\ spc = "call"
    /\ monitors \in SeqsUpTo(MonitorChoices, MaxMonitors)
    /\ image_paths \in SeqsUpTo(ImageFiles, MaxMonitors)
    /\ deps_ok \in BOOLEAN
    /\ out_writable \in BOOLEAN
    /\ StitchStart

StitchIdle ==
    /\ spc = "off"
    /\ monitors = <<>> /\ image_paths = <<>>
    /\ deps_ok = TRUE /\ out_writable = TRUE
    /\ StitchStart

\* lines 271-296: dependency check, length checks, bounding box, canvas.
StitchBegin ==
    /\ spc = "call"
    /\ IF \/ ~deps_ok
          \/ LengthsDiffer(Len(image_paths), Len(monitors))
          \/ image_paths = <<>>
          \/ monitors = <<>>
       THEN /\ spc' = "done"
            /\ sresult' = NoneResult
            /\ UNCHANGED <<bbox, canvas>>
       ELSE /\ bbox' = Some(BoundingBox(monitors))
            /\ canvas' = Some(NewCanvas(BoundingBox(monitors)))
            /\ spc' = "images"
            /\ UNCHANGED sresult
    /\ UNCHANGED <<image_paths, monitors, deps_ok, out_writable, pastes, s_i, opened,
                   failedAt, written>>

\* lines 299-318: one (image_path, monitor) pair of the zip.
StitchImage ==
    /\ spc = "images"
    /\ s_i <= MinOf(Len(image_paths), Len(monitors))
    /\ LET img == image_paths[s_i]
           monitor == monitors[s_i]
       IN  /\ opened' = opened + 1
           /\ s_i' = s_i + 1
           /\ IF img.kind = "ok"
              THEN /\ pastes' = Append(pastes,
                                  [index |-> s_i,
                                   size |-> <<monitor.width, monitor.height>>,
                                   resized |-> (img.size # <<monitor.width, monitor.height>>),
                                   pos |-> PastePos(monitor, bbox[1])])
                   /\ UNCHANGED <<spc, sresult, failedAt>>
              ELSE /\ failedAt' = IF failedAt = 0 THEN s_i ELSE failedAt
                   /\ spc' = AfterImageFailure
                   /\ sresult' = IF spc' = "done" THEN NoneResult ELSE sresult
                   /\ UNCHANGED pastes
    /\ UNCHANGED <<image_paths, monitors, deps_ok, out_writable, bbox, canvas, written>>

\* lines 320-330: save the canvas; a failing save is caught and gives None.
StitchSave ==
    /\ spc = "images"
    /\ s_i > MinOf(Len(image_paths), Len(monitors))
    /\ IF out_writable
       THEN /\ written' = TRUE
            /\ sresult' = OutputPath
       ELSE /\ written' \in BOOLEAN
            /\ sresult' = NoneResult
    /\ spc' = "done"
    /\ UNCHANGED <<image_paths, monitors, deps_ok, out_writable, bbox, canvas, pastes,
                   s_i, opened, failedAt>>

StitchNext == StitchBegin \/ StitchImage \/ StitchSave

(***************************************************************************)
(* image_utils.crop_image_to_aspect                                        *)
(***************************************************************************)
MaxDim == 6
MaxAspect == 4

\* Image sizes and aspect components tried; 2000x1000 and 16:9 are the
\* documented example, 355x631 is within 1e-4 of 9:16 without being 9:16,
\* 703x1250 is exactly 1e-4 away from 9:16, and 32x45 at 7:10 is a size whose
\* exact crop width 31.5 lies halfway between two integers while 7/10 is not
\* a double.
CropWidths == 0..MaxDim \cup {2000, 355, 703, 32}
CropHeights == 0..MaxDim \cup {1000, 631, 1250, 45}
AspectValues == -1..MaxAspect \cup {7, 9, 10, 16}
CropImages ==
    {[kind |-> "unreadable", w |-> 0, h |-> 0]}
    \cup [kind : {"ok"}, w : CropWidths, h : CropHeights]

ImagePath == "image_path"
CroppedPath == "image_path_cropped"

Abs(x) == IF x < 0 THEN 0 - x ELSE x

\* line 111-112: current_ratio = w / h if h else 0; current_ratio == 0.
RatioIsZero(w, h) == h = 0 \/ w = 0

\* line 106: aspect_w <= 0 or aspect_h <= 0.
BadAspect_BothOnly(aw, ah) == aw <= 0 /\ ah <= 0
BadAspect(aw, ah) == aw <= 0 \/ ah <= 0

\* line 114: abs(current_ratio - target_ratio) < 1e-4 on doubles; away from
\* the exact boundary the rationals decide.  Where |w/h - aspect_w/aspect_h|
\* is exactly one ten-thousandth (sigma the sign of the difference), the two
\* doubles are a = w/h + ea and b = aspect_w/aspect_h + eb, their difference
\* is exact, and the literal 1e-4 is the double 1e-4 + 221 / (625 * 2^66); so
\* the test is sigma * (ea - eb) < 221 / (625 * 2^66).
CloseEnough(w, h, aw, ah) ==
    LET diff == Abs(w * ah - aw * h)
        sigma == Sign(w * ah - aw * h)
        a == TrueDiv(w, h)
        b == TrueDiv(aw, ah)
        m == IF a.e < b.e THEN a.e ELSE b.e
        K == sigma * (a.c * b.d * (IF a.e > m THEN 2 ELSE 1)
                        - b.c * a.d * (IF b.e > m THEN 2 ELSE 1))
    IN  IF diff > h * ah THEN FALSE
        ELSE IF diff * 10000 # h * ah THEN diff * 10000 < h * ah
        ELSE IF K <= 0 THEN TRUE
        ELSE CmpScaled(K * 625, m + 14, 221 * a.d * b.d) < 0

\* line 120: current_ratio > target_ratio.  Division rounds monotonically and
\* the two ratios are at least 1e-4 apart here, so the doubles compare as
\* the rationals do.
TooWide_Inverted(w, h, aw, ah) == w * ah < aw * h
TooWide(w, h, aw, ah) == w * ah > aw * h

\* line 122: int(round(h * target_ratio)), target_ratio = aspect_w / aspect_h.
\* On a tie h * aspect_w / aspect_h = q + 1/2 the double h * target_ratio
\* decides.  target_ratio is off by eta = (c/d) * 2^(e - 52); the product is
\* the tie itself unless h * |eta| exceeds half the gap to the next double on
\* that side (the gap is halved below a power of two, which q + 1/2 is only
\* for q = 0).
RoundProduct(h, aw, ah) ==
    LET n == h * aw
        q == n \div ah
        r == n % ah
        t == TrueDiv(aw, ah)
        mag == IF t.c < 0 THEN 0 - t.c ELSE t.c
        pw == IF t.c < 0 /\ q = 0 THEN 1 ELSE 0
        ev == Normalise(2 * q + 1, 2, 0)[3]
        lean == IF t.c = 0 THEN 0
                ELSE IF CmpScaled(h * mag, t.e - ev + 1 + pw, t.d) > 0
                     THEN Sign(t.c)
                ELSE 0
    IN  Round(q, r, ah, IF 2 * r = ah THEN lean ELSE 0)

\* line 129: int(round(w / target_ratio)).  On a tie
\* w * aspect_h / aspect_w = q + 1/2, with s the half gap beside the tie on
\* side sg, the double w / target_ratio passes the tie on that side exactly
\* when sg * (aspect_w/aspect_h) * s + eta * (q + 1/2) has the sign opposite
\* to sg (eta as for line 122; when the sum is zero the second-order term
\* sg * eta * s decides).
RoundQuotient(w, aw, ah) ==
    LET n == w * ah
        q == n \div aw
        r == n % aw
        t == TrueDiv(aw, ah)
        mag == IF t.c < 0 THEN 0 - t.c ELSE t.c
        ev == Normalise(2 * q + 1, 2, 0)[3]
        Side(sg) ==
            LET pw == IF sg < 0 /\ q = 0 THEN 1 ELSE 0
                cm == CmpScaled(2 * aw * t.d, ev - t.e - 1 - pw,
                                mag * (2 * q + 1) * ah)
            IN  IF sg * Sign(t.c) > 0 THEN sg
                ELSE IF cm = 0 THEN sg * Sign(t.c)
                ELSE sg * cm
        lean == IF t.c = 0 THEN 0
                ELSE IF Side(1) < 0 THEN 1
                ELSE IF Side(0 - 1) > 0 THEN 0 - 1
                ELSE 0
    IN  Round(q, r, aw, IF 2 * r = aw THEN lean ELSE 0)

\* lines 120-133: the crop box (left, top, right, bottom).
CropBox(w, h, aw, ah) ==
    IF TooWide(w, h, aw, ah)
    THEN LET new_w == RoundProduct(h, aw, ah)
             new_h == h
             left == (w - new_w) \div 2
             top == 0
         IN  <<left, top, left + new_w, top + new_h>>
    ELSE LET new_w == w
             new_h == RoundQuotient(w, aw, ah)
             left == 0
             top == (h - new_h) \div 2
         IN  <<left, top, left + new_w, top + new_h>>

VARIABLES
    cpc,                \* position in crop_image_to_aspect
    c_image,            \* what image_path holds
    aspect_w, aspect_h, inplace,
    output_path,        \* None or Some(path)
    c_deps_ok,
    c_opened,           \* Image.open(image_path) has been called
    crop_box,           \* None until line 134 crops
    c_files,            \* path -> size of the image this call wrote there,
                        \* Some(<<>>) for a file a failed save left behind
    cresult             \* at the end of the call: None or Some(path)

cropVars == <<cpc, c_image, aspect_w, aspect_h, inplace, output_path, c_deps_ok,
              c_opened, crop_box, c_files, cresult>>

CropPaths == {ImagePath, "output_path", CroppedPath}
NoFiles == [p \in CropPaths |-> None]

CropStart ==
    /\ c_opened = FALSE
    /\ crop_box = None
    /\ c_files = NoFiles
    /\ cresult = None

CropInit ==
    /\ cpc = "call"
    /\ c_image \in CropImages
    /\ aspect_w \in AspectValues
    /\ aspect_h \in AspectValues
    /\ inplace \in BOOLEAN
    /\ output_path \in {None, Some("output_path"), Some(ImagePath)}
    /\ c_deps_ok \in BOOLEAN
    /\ CropStart

CropIdle ==
    /\ cpc = "off"
    /\ c_image = [kind |-> "unreadable", w |-> 0, h |-> 0]
    /\ aspect_w = 16 /\ aspect_h = 9
    /\ inplace = TRUE
    /\ output_path = None
    /\ c_deps_ok = TRUE
    /\ CropStart

\* lines 104-107: dependency check and the check of the aspect components;
\* both raise into the handler of lines 148-151, which returns None.
CropCheck ==
    /\ cpc = "call"
    /\ IF ~c_deps_ok \/ BadAspect(aspect_w, aspect_h)
       THEN /\ cpc' = "done"
            /\ cresult' = None
       ELSE /\ cpc' = "open"
            /\ UNCHANGED cresult
    /\ UNCHANGED <<c_image, aspect_w, aspect_h, inplace, output_path, c_deps_ok,
                   c_opened, crop_box, c_files>>

\* lines 108-113: open the image, read its size, reject a zero ratio.
CropOpen ==
    /\ cpc = "open"
    /\ c_opened' = TRUE
    /\ IF c_image.kind # "ok" \/ RatioIsZero(c_image.w, c_image.h)
       THEN /\ cpc' = "done"
            /\ cresult' = None
       ELSE /\ cpc' = "ratio"
            /\ UNCHANGED cresult
    /\ UNCHANGED <<c_image, aspect_w, aspect_h, inplace, output_path, c_deps_ok,
                   crop_box, c_files>>

\* lines 114-119: already close enough; copy to output_path when asked.
\* img.save(dest) writes the image, raises before the file is opened, or
\* raises after it was opened and leaves a file that holds no image (<<>>);
\* either failure is caught by line 148 and None is returned.
CropKeep ==
    /\ cpc = "ratio"
    /\ CloseEnough(c_image.w, c_image.h, aspect_w, aspect_h)
    /\ LET dest == IF inplace THEN ImagePath
                   ELSE IF output_path # None THEN output_path[1] ELSE ImagePath
       IN  IF ~inplace /\ output_path # None
           THEN \E save \in {"saved", "refused", "cut_short"} :
                  /\ c_files' = CASE save = "saved" ->
                                       [c_files EXCEPT ![dest] = Some(<<c_image.w, c_image.h>>)]
                                  [] save = "cut_short" -> [c_files EXCEPT ![dest] = Some(<<>>)]
                                  [] save = "refused" -> c_files
                  /\ cresult' = IF save = "saved" THEN Some(dest) ELSE None
           ELSE /\ cresult' = Some(dest)
                /\ UNCHANGED c_files
    /\ cpc' = "done"
    /\ UNCHANGED <<c_image, aspect_w, aspect_h, inplace, output_path, c_deps_ok,
                   c_opened, crop_box>>

\* lines 120-134: compute the crop box and crop.
CropCut ==
    /\ cpc = "ratio"
    /\ ~CloseEnough(c_image.w, c_image.h, aspect_w, aspect_h)
    /\ crop_box' = Some(CropBox(c_image.w, c_image.h, aspect_w, aspect_h))
    /\ cpc' = "save"
    /\ UNCHANGED <<c_image, aspect_w, aspect_h, inplace, output_path, c_deps_ok,
                   c_opened, c_files, cresult>>

\* lines 135-151: choose the destination and save the cropped image; a save
\* that fails may leave a file that holds no image.
CropSave ==
    /\ cpc = "save"
    /\ LET dest_path == IF inplace THEN ImagePath
                        ELSE IF output_path # None THEN output_path[1] ELSE CroppedPath
           box == crop_box[1]
       IN  \E save \in {"saved", "refused", "cut_short"} :
             /\ c_files' = CASE save = "saved" ->
                                  [c_files EXCEPT
                                     ![dest_path] = Some(<<box[3] - box[1], box[4] - box[2]>>)]
                             [] save = "cut_short" -> [c_files EXCEPT ![dest_path] = Some(<<>>)]
                             [] save = "refused" -> c_files
             /\ cresult' = IF save = "saved" THEN Some(dest_path) ELSE None
    /\ cpc' = "done"
    /\ UNCHANGED <<c_image, aspect_w, aspect_h, inplace, output_path, c_deps_ok,
                   c_opened, crop_box>>

CropNext == CropCheck \/ CropOpen \/ CropKeep \/ CropCut \/ CropSave

(***************************************************************************)
(* image_utils.simplify_ratio and MonitorInfo.aspect_ratio                 *)
(***************************************************************************)
MaxRatioDim == 8

\* Dimensions tried: missing, zero, small ones and the documented sizes.
RatioDims == {None} \cup {Some(n) : n \in 0..MaxRatioDim \cup {1080, 1920, 2560}}

VARIABLES
    r_pc,               \* "call", "monitor", "done"
    r_width, r_height,  \* the two arguments, None or Some(n)
    r_text,             \* what simplify_ratio returned
    r_monitor           \* what MonitorInfo(...).aspect_ratio returned

ratioVars == <<r_pc, r_width, r_height, r_text, r_monitor>>

RatioInit ==
    /\ r_pc = "call"
    /\ r_width \in RatioDims
    /\ r_height \in RatioDims
    /\ r_text = None
    /\ r_monitor = None

RatioIdle ==
    /\ r_pc = "off"
    /\ r_width = None /\ r_height = None
    /\ r_text = None /\ r_monitor = None

\* image_utils.py lines 36-40.
RatioSimplify ==
    /\ r_pc = "call"
    /\ r_text' = simplify_ratio(r_width, r_height)
    /\ r_pc' = "monitor"
    /\ UNCHANGED <<r_width, r_height, r_monitor>>

\* monitors.py lines 38-40 on a monitor of the same size.
RatioMonitor ==
    /\ r_pc = "monitor"
    /\ r_monitor' = aspect_ratio([width |-> r_width, height |-> r_height])
    /\ r_pc' = "done"
    /\ UNCHANGED <<r_width, r_height, r_text>>

RatioNext == RatioSimplify \/ RatioMonitor

(***************************************************************************)
(* image_utils.is_image_too_bright                                         *)
(***************************************************************************)
MaxPixels == 3
MaxSample == 2

\* Luminance values of the grayscale image and thresholds tried.
Luminances == {0, 145, 200, 255}
DefaultThreshold == 200
Thresholds == {145, DefaultThreshold}
PixelLists == SeqsUpTo(Luminances, MaxPixels)

RECURSIVE Sum(_)
Sum(xs) == IF xs = <<>> THEN 0 ELSE Head(xs) + Sum(Tail(xs))

\* The pixels at the positions of I, in position order.
RECURSIVE PickAt(_, _, _)
PickAt(xs, I, i) ==
    IF i > Len(xs) THEN <<>>
    ELSE IF i \in I THEN <<xs[i]>> \o PickAt(xs, I, i + 1)
    ELSE PickAt(xs, I, i + 1)

\* random.sample(pixels, k): k pixels at distinct positions.  The order of
\* the sample is immaterial to the sum, so position order is kept.
Samples(xs, k) ==
    {PickAt(xs, I, 1) : I \in {J \in SUBSET (1..Len(xs)) : Cardinality(J) = k}}

\* line 241: sample_size > 0 and len(pixels) > sample_size.
MustSample(xs, k) == k > 0 /\ Len(xs) > k

\* lines 246-248: avg = sum / len if pixels else 0; avg >= threshold.
TooBright_Strict(xs, threshold) ==
    IF xs # <<>> THEN Sum(xs) > threshold * Len(xs) ELSE 0 > threshold
TooBright(xs, threshold) ==
    IF xs # <<>> THEN Sum(xs) >= threshold * Len(xs) ELSE 0 >= threshold

VARIABLES
    b_pc,               \* "call", "sample", "judge", "done"
    b_readable,         \* Image.open and convert succeed
    b_image,            \* the luminance values of the file's pixels
    brightness_threshold,
    sample_size,
    pixels,             \* the examined values (line 238, then line 243)
    b_result            \* None until the call returns, then Some(bool)

brightVars == <<b_pc, b_readable, b_image, brightness_threshold, sample_size,
                pixels, b_result>>

BrightInit ==
    /\ b_pc = "call"
    /\ b_readable \in BOOLEAN
    /\ b_image \in PixelLists
    /\ brightness_threshold \in Thresholds
    /\ sample_size \in 0..MaxSample
    /\ pixels = <<>>
    /\ b_result = None

BrightIdle ==
    /\ b_pc = "off"
    /\ b_readable = FALSE
    /\ b_image = <<>>
    /\ brightness_threshold = DefaultThreshold
    /\ sample_size = 0
    /\ pixels = <<>>
    /\ b_result = None

\* lines 227-238 and 252-256: open, convert, getdata; any failure gives False.
BrightOpen ==
    /\ b_pc = "call"
    /\ IF b_readable
       THEN /\ pixels' = b_image
            /\ b_pc' = "sample"
            /\ UNCHANGED b_result
       ELSE /\ b_result' = Some(FALSE)
            /\ b_pc' = "done"
            /\ UNCHANGED pixels
    /\ UNCHANGED <<b_readable, b_image, brightness_threshold, sample_size>>

\* lines 241-243.
BrightSample ==
    /\ b_pc = "sample"
    /\ IF MustSample(pixels, sample_size)
       THEN pixels' \in Samples(pixels, sample_size)
       ELSE UNCHANGED pixels
    /\ b_pc' = "judge"
    /\ UNCHANGED <<b_readable, b_image, brightness_threshold, sample_size, b_result>>

\* lines 246-251.
BrightJudge ==
    /\ b_pc = "judge"
    /\ b_result' = Some(TooBright(pixels, brightness_threshold))
    /\ b_pc' = "done"
    /\ UNCHANGED <<b_readable, b_image, brightness_threshold, sample_size, pixels>>

BrightNext == BrightOpen \/ BrightSample \/ BrightJudge

(***************************************************************************)
(* download_history.load_history and append_history                        *)
(***************************************************************************)
MaxUrls == 2
MaxUrlLen == 2

\* A string is the sequence of its characters; SP is a blank, NL a newline.
SP == "SP"
NL == "NL"
Chars == {"a", SP, NL}
Whitespace == {SP, NL}
Strings == SeqsUpTo(Chars, MaxUrlLen)
UrlSets == {{f[i] : i \in 1..Len(f)} : f \in SeqsUpTo(Strings, MaxUrls)}

\* What the history path holds before the call: no file, or one recorded line.
PriorFiles == {None, Some(<<"a", "a", NL>>)}

\* u + "\n" of line 35.
LineOf_NoNewline(u) == u
LineOf(u) == u \o <<NL>>

\* Iterating a text file: the pieces between newlines, a last unterminated
\* piece included.
RECURSIVE SplitLines(_, _)
SplitLines(text, cur) ==
    IF text = <<>> THEN (IF cur = <<>> THEN {} ELSE {cur})
    ELSE IF Head(text) = NL THEN {cur} \cup SplitLines(Tail(text), <<>>)
    ELSE SplitLines(Tail(text), Append(cur, Head(text)))

\* str.strip(): leading and trailing whitespace removed.
RECURSIVE LStrip(_)
LStrip(line) ==
    IF line # <<>> /\ Head(line) \in Whitespace THEN LStrip(Tail(line)) ELSE line
RECURSIVE RStrip(_)
RStrip(line) ==
    IF line # <<>> /\ line[Len(line)] \in Whitespace
    THEN RStrip(SubSeq(line, 1, Len(line) - 1)) ELSE line
Strip(line) == RStrip(LStrip(line))

\* line 21: {line.strip() for line in f if line.strip()}.
ParseHistory(text) ==
    {Strip(line) : line \in {l \in SplitLines(text, <<>>) : Strip(l) # <<>>}}

\* lines 19-23: the parsed file, or set() when it cannot be opened.
load_history(file) == IF file = None THEN {} ELSE ParseHistory(file[1])

\* Which operation of append_history the file system refuses, if any.
HistoryFaults == {"none", "makedirs", "open", "write"}

VARIABLES
    h_pc,               \* "append", "open", "write", "close", "load", "done"
    urls,               \* the argument of append_history
    h_prior,            \* the file before the call
    h_file,             \* the file now: None or Some(text)
    h_fault,
    h_todo,             \* URLs the for loop of line 34 has still to write
    h_buffer,           \* text written to f that has not reached the file yet
    h_appended,         \* append_history was called and wrote every URL
    h_raised,           \* an exception left append_history
    h_loaded            \* None, or Some(set returned by load_history)

historyVars == <<h_pc, urls, h_prior, h_file, h_fault, h_todo, h_buffer,
                 h_appended, h_raised, h_loaded>>

HistoryInit ==
    /\ h_pc \in {"append", "load"}
    /\ urls \in UrlSets
    /\ h_prior \in PriorFiles
    /\ h_file = h_prior
    /\ h_fault \in HistoryFaults
    /\ h_pc = "load" => (urls = {} /\ h_fault = "none")
    /\ h_todo = urls
    /\ h_buffer = <<>>
    /\ h_appended = FALSE
    /\ h_raised = FALSE
    /\ h_loaded = None

HistoryIdle ==
    /\ h_pc = "off"
    /\ urls = {}
    /\ h_prior = None
    /\ h_file = None
    /\ h_fault = "none"
    /\ h_todo = {}
    /\ h_buffer = <<>>
    /\ h_appended = FALSE
    /\ h_raised = FALSE
    /\ h_loaded = None

\* line 31: os.makedirs, outside the try of lines 32-38.
AppendMakedirs ==
    /\ h_pc = "append"
    /\ IF h_fault = "makedirs"
       THEN h_raised' = TRUE /\ h_pc' = "done"
       ELSE h_raised' = FALSE /\ h_pc' = "open"
    /\ UNCHANGED <<urls, h_prior, h_file, h_fault, h_todo, h_buffer, h_appended,
                   h_loaded>>

\* line 33: open(path, "a") creates the file; a failure is passed over (36-38).
AppendOpen ==
    /\ h_pc = "open"
    /\ IF h_fault = "open"
       THEN h_pc' = "load" /\ UNCHANGED h_file
       ELSE /\ h_pc' = "write"
            /\ h_file' = IF h_file = None THEN Some(<<>>) ELSE h_file
    /\ UNCHANGED <<urls, h_prior, h_fault, h_todo, h_buffer, h_appended, h_raised,
                   h_loaded>>

\* lines 34-35: one f.write of the for loop.  The text file is buffered: the
\* line is added to the buffer and the file itself is not touched yet.
AppendWrite ==
    /\ h_pc = "write"
    /\ IF h_todo = {}
       THEN /\ h_pc' = "close"
            /\ UNCHANGED <<h_todo, h_buffer>>
       ELSE \E u \in h_todo :
                 /\ h_buffer' = h_buffer \o LineOf(u)
                 /\ h_todo' = h_todo \ {u}
                 /\ h_pc' = "write"
    /\ UNCHANGED <<urls, h_prior, h_file, h_fault, h_appended, h_raised, h_loaded>>

\* line 33, leaving the with block: the buffer is flushed and the file closed.
\* When the file system refuses bytes of the buffer (no room left, a size
\* limit) the bytes accepted before, a proper beginning of the buffer, stay in
\* the file, the rest is lost, and the error is passed over (36-38).  With
\* nothing buffered nothing is written and the close succeeds.
AppendClose ==
    /\ h_pc = "close"
    /\ IF h_fault = "write" /\ h_buffer # <<>>
       THEN /\ \E k \in 0..(Len(h_buffer) - 1) :
                   h_file' = Some(h_file[1] \o SubSeq(h_buffer, 1, k))
            /\ UNCHANGED h_appended
       ELSE /\ h_file' = Some(h_file[1] \o h_buffer)
            /\ h_appended' = TRUE
    /\ h_buffer' = <<>>
    /\ h_pc' = "load"
    /\ UNCHANGED <<urls, h_prior, h_fault, h_todo, h_raised, h_loaded>>

\* lines 14-23.
HistoryLoad ==
    /\ h_pc = "load"
    /\ h_loaded' = Some(load_history(h_file))
    /\ h_pc' = "done"
    /\ UNCHANGED <<urls, h_prior, h_file, h_fault, h_todo, h_buffer, h_appended,
                   h_raised>>

HistoryNext == AppendMakedirs \/ AppendOpen \/ AppendWrite \/ AppendClose \/ HistoryLoad

(***************************************************************************)
(* image_utils.download_image                                              *)
(***************************************************************************)
MaxTaken == 3

\* File names in the destination folder: 0 is base.ext, k >= 1 is base_k.ext.
Names == 0..(MaxTaken + 1)
TakenSets == SUBSET (0..MaxTaken)

\* A Content-Type value is the sequence of its pieces; <<>> is the "" that
\* headers.get gives when the header is missing.
ContentTypes ==
    {<<"image", "/", "png">>,
     <<"IMAGE", "/", "PNG">>,
     <<"text", "/", "html">>,
     <<"application", "/", "x-apple-disk", "image">>,
     <<>>}

\* What requests.get and raise_for_status give: an error or a response.
Responses ==
    {[kind |-> "error", content_type |-> <<>>]}
    \cup [kind : {"ok"}, content_type : ContentTypes]

\* str.lower() on one piece.
LowerPiece(t) ==
    IF t = "IMAGE" THEN "image" ELSE IF t = "PNG" THEN "png" ELSE t
Lower(text) == [i \in 1..Len(text) |-> LowerPiece(text[i])]

\* "image" in content_type: the substring test of line 73.
ContainsImage(text) == \E i \in 1..Len(text) : text[i] = "image"

\* os.path.exists(dest_path).
Exists(files, name) == files[name] # "absent"

VARIABLES
    d_pc,               \* "call", "probe", "get", "write", "done"
    d_setup_ok,         \* ensure_dependencies and os.makedirs succeed
    d_taken,            \* names that exist before the call
    d_files,            \* name -> "absent", "old" (untouched), "new" (written)
                        \* or "partial" (made by this call, cut short)
    d_response,         \* what the server will answer
    dest_path,          \* the name the loop of lines 66-68 has reached
    counter,
    d_result            \* None, or Some(name) returned

downloadVars == <<d_pc, d_setup_ok, d_taken, d_files, d_response, dest_path,
                  counter, d_result>>

FilesOf(taken) == [n \in Names |-> IF n \in taken THEN "old" ELSE "absent"]

DownloadInit ==
    /\ d_pc = "call"
    /\ d_setup_ok \in BOOLEAN
    /\ d_taken \in TakenSets
    /\ d_files = FilesOf(d_taken)
    /\ d_response \in Responses
    /\ dest_path = 0
    /\ counter = 1
    /\ d_result = None

DownloadIdle ==
    /\ d_pc = "off"
    /\ d_setup_ok = FALSE
    /\ d_taken = {}
    /\ d_files = FilesOf({})
    /\ d_response = [kind |-> "error", content_type |-> <<>>]
    /\ dest_path = 0
    /\ counter = 1
    /\ d_result = None

\* lines 55-65: dependencies, makedirs, file name, counter = 1.
DownloadSetup ==
    /\ d_pc = "call"
    /\ d_pc' = IF d_setup_ok THEN "probe" ELSE "done"
    /\ UNCHANGED <<d_setup_ok, d_taken, d_files, d_response, dest_path, counter,
                   d_result>>

\* lines 66-68: one test of the while loop.
DownloadProbe ==
    /\ d_pc = "probe"
    /\ IF Exists(d_files, dest_path)
       THEN /\ dest_path' = counter
            /\ counter' = counter + 1
            /\ d_pc' = "probe"
       ELSE /\ d_pc' = "get"
            /\ UNCHANGED <<dest_path, counter>>
    /\ UNCHANGED <<d_setup_ok, d_taken, d_files, d_response, d_result>>

\* lines 69-76: the request, raise_for_status and the content-type test.
DownloadGet ==
    /\ d_pc = "get"
    /\ d_pc' = IF /\ d_response.kind = "ok"
                  /\ ContainsImage(Lower(d_response.content_type))
               THEN "write" ELSE "done"
    /\ UNCHANGED <<d_setup_ok, d_taken, d_files, d_response, dest_path, counter,
                   d_result>>

\* lines 77-83: open(dest_path, "wb"), write, return dest_path.  When open()
\* raises no file is made; when f.write() raises the file open() made stays,
\* empty or cut short; both are caught by line 80 and None is returned.
DownloadWrite ==
    /\ d_pc = "write"
    /\ \E o \in {"written", "open_raises", "write_raises"} :
         /\ d_files' = CASE o = "written" -> [d_files EXCEPT ![dest_path] = "new"]
                         [] o = "open_raises" -> d_files
                         [] o = "write_raises" ->
                               [d_files EXCEPT ![dest_path] = "partial"]
         /\ d_result' = IF o = "written" THEN Some(dest_path) ELSE None
    /\ d_pc' = "done"
    /\ UNCHANGED <<d_setup_ok, d_taken, d_response, dest_path, counter>>

DownloadNext == DownloadSetup \/ DownloadProbe \/ DownloadGet \/ DownloadWrite

(***************************************************************************)
(* monitors.gather_monitors                                                *)
(***************************************************************************)
\* The tuple of strategies of lines 232-237, in the order it is iterated.
Strategies == <<"screeninfo", "wmi", "ctypes", "tkinter">>

\* A list of n monitors as one strategy reports it.
MonitorList(strat, n) == [i \in 1..n |-> [via |-> strat, index |-> i - 1]]

\* The lines PowerShell printed, blank ones dropped (line 156): a record
\* "device:width:height", a line without a colon, or a line with a colon that
\* does not split into a device and two ints.
MaxLines == 3

\* lines 156-198 of _gather_monitors_windows_wmi: no line at all gives the two
\* assumed monitors; otherwise every line with a colon becomes a monitor
\* numbered by the position of its line, lines without a colon are passed
\* over, a malformed line raises (caught, None), and an empty result is None.
WmiMonitors(lines) ==
    LET IsRecord(i) == lines[i] = "record"
        kept == SelectSeq([i \in 1..Len(lines) |-> i], IsRecord)
    IN  IF lines = <<>> THEN Some(MonitorList("wmi", 2))
        ELSE IF \E i \in 1..Len(lines) : lines[i] = "malformed" THEN None
        ELSE IF kept = <<>> THEN None
        ELSE Some([k \in 1..Len(kept) |-> [via |-> "wmi", index |-> kept[k] - 1]])

\* What a strategy can return: None, a list, and for screeninfo and ctypes an
\* empty list; WMI None (not Windows, PowerShell failed) or what it makes of
\* the printed lines; Tkinter one primary monitor or None.
StrategyOutcomes(strat) ==
    {None}
    \cup (IF strat \in {"screeninfo", "ctypes"} THEN {Some(<<>>)} ELSE {})
    \cup (IF strat = "wmi" THEN {WmiMonitors(lines) :
                                  lines \in SeqsUpTo({"record", "text", "malformed"}, MaxLines)}
          ELSE {Some(MonitorList(strat, n)) :
                  n \in 1..(IF strat = "tkinter" THEN 1 ELSE MaxMonitors)})

StrategyNames == {Strategies[i] : i \in 1..Len(Strategies)}
Environments ==
    {[st \in StrategyNames |->
        CASE st = "screeninfo" -> a [] st = "wmi" -> b
          [] st = "ctypes" -> c [] st = "tkinter" -> d] :
     a \in StrategyOutcomes("screeninfo"), b \in StrategyOutcomes("wmi"),
     c \in StrategyOutcomes("ctypes"), d \in StrategyOutcomes("tkinter")}

\* `if result:` of line 239: neither None nor an empty list.
Truthy(result) == result # None /\ result[1] # <<>>

VARIABLES
    g_pc,               \* "loop", "done"
    g_env,              \* strategy -> what it returns on this machine
    g_next,             \* position in the tuple of strategies
    g_tried,            \* the strategies run so far, in order
    g_result            \* None until the call returns, then Some(list)

gatherVars == <<g_pc, g_env, g_next, g_tried, g_result>>

GatherInit ==
    /\ g_pc = "loop"
    /\ g_env \in Environments
    /\ g_next = 1
    /\ g_tried = <<>>
    /\ g_result = None

GatherIdle ==
    /\ g_pc = "off"
    /\ g_env = [st \in StrategyNames |-> None]
    /\ g_next = 1
    /\ g_tried = <<>>
    /\ g_result = None

\* lines 238-240: run the next strategy and return its result if truthy.
GatherTry ==
    /\ g_pc = "loop"
    /\ g_next <= Len(Strategies)
    /\ LET strat == Strategies[g_next]
           result == g_env[strat]
       IN  /\ g_tried' = Append(g_tried, strat)
           /\ IF Truthy(result)
              THEN /\ g_result' = result
                   /\ g_pc' = "done"
                   /\ UNCHANGED g_next
              ELSE /\ g_next' = g_next + 1
                   /\ UNCHANGED <<g_result, g_pc>>
    /\ UNCHANGED g_env

\* line 241: return [] once the tuple is exhausted.
GatherNothing ==
    /\ g_pc = "loop"
    /\ g_next > Len(Strategies)
    /\ g_result' = Some(<<>>)
    /\ g_pc' = "done"
    /\ UNCHANGED <<g_env, g_next, g_tried>>

GatherNext == GatherTry \/ GatherNothing

utilVars == <<ratioVars, brightVars, historyVars, downloadVars, gatherVars>>
UtilIdle == RatioIdle /\ BrightIdle /\ HistoryIdle /\ DownloadIdle /\ GatherIdle

vars == <<collectorVars, stitchVars, cropVars, utilVars>>

Init == CollectorInit /\ StitchIdle /\ CropIdle /\ UtilIdle
Next == CollectorNext /\ UNCHANGED <<stitchVars, cropVars, utilVars>>
Spec == Init /\ [][Next]_vars

\* The call runs to its end: a sequential program keeps taking its next step.
\* The calls followed to their end are those that skip one URL.
InitFair ==
    /\ count \in 0..MaxCount
    /\ skip_urls = {"u1"}
    /\ max_shuffles \in -1..MaxShuffles
    /\ script = FreeRemote
    /\ run = 1
    /\ first = NoFirst
    /\ CallInit
    /\ StitchIdle /\ CropIdle /\ UtilIdle
SpecFair == InitFair /\ [][Next]_vars /\ WF_vars(Next)

NextMono == (CollectorNext \/ Replay) /\ UNCHANGED <<stitchVars, cropVars, utilVars>>
InitMono ==
    /\ count \in 1..MaxCount
    /\ skip_urls \in {{}, {"u1"}}
    /\ max_shuffles \in 0..MaxShuffles
    /\ script \in [on : {TRUE}, load : {"ok", "timeout"},
                   shuffles : [1..MaxShuffles -> MonoOutcomes]]
    /\ run = 1
    /\ first = NoFirst
    /\ CallInit
    /\ StitchIdle /\ CropIdle /\ UtilIdle
SpecMono == InitMono /\ [][NextMono]_vars

CollectorIdle ==
    /\ count = 0 /\ skip_urls = {} /\ max_shuffles = 0
    /\ script = FreeRemote /\ run = 1 /\ first = NoFirst
    /\ pc = "off"
    /\ driver = "none"
    /\ collected = <<>>
    /\ attempts = 0
    /\ wallpaper_elements = <<>>
    /\ pending = NoPending
    /\ outcome = NoPending
    /\ nShuffles = 0 /\ nLists = 0 /\ nFetches = 0 /\ quits = 0
    /\ usedAfterQuit = FALSE
    /\ failure = NoFailure
    /\ fetched = NoDims
    /\ sessions = 0

InitStitch == StitchInit /\ CollectorIdle /\ CropIdle /\ UtilIdle
NextStitch == StitchNext /\ UNCHANGED <<collectorVars, cropVars, utilVars>>
SpecStitch == InitStitch /\ [][NextStitch]_vars

InitCrop == CropInit /\ CollectorIdle /\ StitchIdle /\ UtilIdle
NextCrop == CropNext /\ UNCHANGED <<collectorVars, stitchVars, utilVars>>
SpecCrop == InitCrop /\ [][NextCrop]_vars

AppIdle == CollectorIdle /\ StitchIdle /\ CropIdle
appVars == <<collectorVars, stitchVars, cropVars>>

InitRatio == RatioInit /\ AppIdle /\ BrightIdle /\ HistoryIdle /\ DownloadIdle /\ GatherIdle
NextRatio == RatioNext /\ UNCHANGED <<appVars, brightVars, historyVars, downloadVars, gatherVars>>
SpecRatio == InitRatio /\ [][NextRatio]_vars

InitBright == BrightInit /\ AppIdle /\ RatioIdle /\ HistoryIdle /\ DownloadIdle /\ GatherIdle
NextBright == BrightNext /\ UNCHANGED <<appVars, ratioVars, historyVars, downloadVars, gatherVars>>
SpecBright == InitBright /\ [][NextBright]_vars

InitHistory == HistoryInit /\ AppIdle /\ RatioIdle /\ BrightIdle /\ DownloadIdle /\ GatherIdle
NextHistory == HistoryNext /\ UNCHANGED <<appVars, ratioVars, brightVars, downloadVars, gatherVars>>
SpecHistory == InitHistory /\ [][NextHistory]_vars

InitDownload == DownloadInit /\ AppIdle /\ RatioIdle /\ BrightIdle /\ HistoryIdle /\ GatherIdle
NextDownload == DownloadNext /\ UNCHANGED <<appVars, ratioVars, brightVars, historyVars, gatherVars>>
SpecDownload == InitDownload /\ [][NextDownload]_vars

InitGather == GatherInit /\ AppIdle /\ RatioIdle /\ BrightIdle /\ HistoryIdle /\ DownloadIdle
NextGather == GatherNext /\ UNCHANGED <<appVars, ratioVars, brightVars, historyVars, downloadVars>>
SpecGather == InitGather /\ [][NextGather]_vars

(***************************************************************************)
(* Properties of the collector                                             *)
(***************************************************************************)
NoDuplicates(coll) ==
    \A i, j \in 1..Len(coll) : coll[i].image_url = coll[j].image_url => i = j

UniqueBounded(coll) ==
    /\ Len(coll) <= count
    /\ NoDuplicates(coll)
    /\ CollectedUrls(coll) \cap skip_urls = {}

\* C1: for count > 0, in every state of the loop and in the returned list,
\* len(collected) <= count, no two collected candidates share an image_url and
\* no collected image_url is in the skip-set.
C1_UniqueBounded ==
    count > 0 =>
        /\ UniqueBounded(collected)
        /\ UniqueBounded(pending.value)
        /\ UniqueBounded(outcome.value)

C1_Witness ==
    /\ outcome.kind = "returned"
    /\ Len(outcome.value) = count
    /\ count >= 2
    /\ skip_urls # {}
    /\ nLists >= 2

\* The while loop of lines 48-89 has been entered and not yet left.
InLoop == pc \in {"loop", "shuffle", "sleep", "list", "elems", "fetch", "append"}

\* Zero for a negative ceiling.
AtLeastZero(n) == IF n < 0 THEN 0 ELSE n

\* C2 as stated: the call always ends, performs at most max_shuffles
\* reshuffles, and the attempts counter of lines 47-60 never exceeds
\* max_shuffles.
C2_Original ==
    /\ [](InLoop => (attempts <= max_shuffles /\ nShuffles <= max_shuffles))
    /\ <>(pc = "done")

\* C2: the call always ends, whatever the listings contain (the returned list
\* may be shorter than count); it performs at most max_shuffles reshuffles, none
\* for a negative max_shuffles, and the attempts counter never exceeds
\* max_shuffles, or zero, its starting value, when max_shuffles is negative.
C2_Terminates ==
    /\ [](/\ attempts <= AtLeastZero(max_shuffles)
          /\ nShuffles <= AtLeastZero(max_shuffles))
    /\ <>(pc = "done")

C2_Witness ==
    /\ outcome.kind = "returned"
    /\ outcome.via = "loop"
    /\ max_shuffles >= 2
    /\ attempts = max_shuffles
    /\ nShuffles = max_shuffles
    /\ Len(outcome.value) < count

\* C3: with count, skip-set and the remote's answers fixed, a call with a larger
\* max_shuffles returns a list at least as long.
C3_Monotone ==
    (/\ run = 2
     /\ pc = "done"
     /\ first.kind = "returned"
     /\ outcome.kind = "returned"
     /\ first.max_shuffles <= max_shuffles)
    => first.len <= Len(outcome.value)

C3_Witness ==
    /\ run = 2
    /\ pc = "done"
    /\ first.kind = "returned"
    /\ outcome.kind = "returned"
    /\ first.max_shuffles < max_shuffles
    /\ first.len >= 1
    /\ first.len < Len(outcome.value)

\* C4: after a failed reshuffle or a failed listing the loop is left at once:
\* attempts is not incremented, no further reshuffle, listing or fetch happens
\* and the call returns exactly what was collected before the failure.
C4_FailureLeavesLoop ==
    failure.kind # "none" =>
        /\ pc \in {"exit", "finally", "done"}
        /\ attempts = failure.attempts
        /\ nShuffles = failure.nShuffles
        /\ nLists = failure.nLists
        /\ nFetches = failure.nFetches
        /\ collected = failure.collected
        /\ pending.kind = "returned" => pending.value = failure.collected
        /\ outcome.kind = "returned" => outcome.value = failure.collected

C4_Witness ==
    /\ failure.kind = "shuffle"
    /\ failure.attempts >= 1
    /\ failure.attempts < max_shuffles
    /\ Len(failure.collected) >= 1
    /\ outcome.kind = "returned"

\* The call holds a driver: _init_driver returned one and line 32 bound it.
Acquired == driver # "none"

\* C5: a call that acquired its driver quits it exactly once before it returns
\* or raises, on every exit path of the try of lines 34-95 (normal completion,
\* gallery load failure, reshuffle or listing failure, attempts exhausted, an
\* exception leaving the loop), and never uses the driver after the quit.  A
\* KeyboardInterrupt that arrives inside the finally block itself, before
\* driver.quit() is called, is no exit path of the contract.
C5_ReleasedOnce ==
    /\ quits <= 1
    /\ ~usedAfterQuit
    /\ ~Acquired => quits = 0
    /\ (pc = "done" /\ Acquired /\ outcome.via # "finally")
           => (quits = 1 /\ driver = "quit")

C5_Witness ==
    /\ pc = "done"
    /\ outcome.kind = "raised"
    /\ outcome.via = "loop"
    /\ nFetches >= 1
    /\ sessions = 1
    /\ quits = 1

\* Outside that contract: every browser webdriver.Chrome started has been quit
\* when the call ends.  It fails for a KeyboardInterrupt between the start of
\* the browser and the try of line 34, for one inside the finally block, and
\* for a first webdriver.Chrome(...) that raises after starting its browser.
NoSessionLeft == pc = "done" => quits = sessions

(***************************************************************************)
(* Properties of the stitcher                                              *)
(***************************************************************************)
AllReadable == \A i \in 1..Len(image_paths) : image_paths[i].kind = "ok"

\* The paste of pair i covers [pos, pos + size) on the canvas.
PasteInside(p, cv) ==
    /\ p.pos[1] >= 0 /\ p.pos[2] >= 0
    /\ p.pos[1] + p.size[1] <= cv.width
    /\ p.pos[2] + p.size[2] <= cv.height

\* The canvas is the smallest rectangle holding every monitor, and paste i
\* sits where monitor i sits relative to the other monitors.
TightCanvas(ps, cv) ==
    /\ \A i \in 1..Len(ps) : PasteInside(ps[i], cv)
    /\ \E i \in 1..Len(ps) : ps[i].pos[1] = 0
    /\ \E i \in 1..Len(ps) : ps[i].pos[2] = 0
    /\ \E i \in 1..Len(ps) : ps[i].pos[1] + ps[i].size[1] = cv.width
    /\ \E i \in 1..Len(ps) : ps[i].pos[2] + ps[i].size[2] = cv.height
    /\ \A i, j \in 1..Len(ps) :
          /\ ps[i].pos[1] - ps[j].pos[1] = monitors[i].x - monitors[j].x
          /\ ps[i].pos[2] - ps[j].pos[2] = monitors[i].y - monitors[j].y

SideBySide ==
    monitors = <<[x |-> 0, y |-> 0, width |-> 1920, height |-> 1080],
                 [x |-> 1920, y |-> 0, width |-> 1920, height |-> 1080]>>

\* C6: with a non-empty monitor list and as many readable images (dependencies
\* present, output path writable) the stitch returns output_path; the canvas is
\* the bounding box of the monitors, image i is pasted with the size of monitor
\* i (resized when its own size differs) at (m.x - min_x, m.y - min_y), never
\* negative and wholly inside the canvas; M0(0,0) M1(1920,0) of 1920x1080 give
\* a 3840x1080 canvas with the second image at (1920, 0).
C6_StitchLayout ==
    (/\ spc = "done"
     /\ deps_ok /\ out_writable
     /\ monitors # <<>>
     /\ Len(image_paths) = Len(monitors)
     /\ AllReadable)
    => /\ sresult = OutputPath
       /\ written
       /\ canvas # None
       /\ Len(pastes) = Len(monitors)
       /\ TightCanvas(pastes, canvas[1])
       /\ \A i \in 1..Len(pastes) :
             /\ pastes[i].index = i
             /\ pastes[i].size = <<monitors[i].width, monitors[i].height>>
             /\ pastes[i].resized = (image_paths[i].size # pastes[i].size)
       /\ SideBySide =>
             /\ canvas[1] = [width |-> 3840, height |-> 1080]
             /\ pastes[1].pos = <<0, 0>>
             /\ pastes[2].pos = <<1920, 0>>

C6_Witness ==
    /\ spc = "done"
    /\ sresult = OutputPath
    /\ Len(monitors) = 2
    /\ \E i \in 1..2 : monitors[i].x < 0
    /\ \E i \in 1..2 : monitors[i].y < 0
    /\ \E i \in 1..2 : pastes[i].resized
    /\ \E i \in 1..2 : pastes[i].pos[1] > 0

\* C7: with len(image_paths) # len(monitors) the stitch returns None before a
\* bounding box is computed, a canvas allocated, an image opened or the output
\* written.
C7_MismatchFailsEarly ==
    (Len(image_paths) # Len(monitors) /\ spc \notin {"call", "off"})
    => /\ spc = "done"
       /\ sresult = NoneResult
       /\ bbox = None
       /\ canvas = None
       /\ opened = 0
       /\ pastes = <<>>
       /\ ~written

C7_Witness ==
    /\ spc = "done"
    /\ deps_ok
    /\ Len(image_paths) > Len(monitors)
    /\ Len(monitors) >= 1
    /\ sresult = NoneResult

\* C8: when the image of pair k cannot be opened, resized or pasted the stitch
\* returns None at once, later pairs are not processed and output_path is not
\* written; the output is written only after every pair has been pasted.
C8_NoPartialComposite ==
    /\ failedAt # 0 =>
          /\ spc = "done"
          /\ sresult = NoneResult
          /\ opened = failedAt
          /\ Len(pastes) = failedAt - 1
          /\ ~written
    /\ written => (Len(pastes) = Len(monitors) /\ failedAt = 0)

C8_Witness ==
    /\ spc = "done"
    /\ failedAt = 1
    /\ Len(image_paths) = 2
    /\ image_paths[1].kind = "truncated"
    /\ image_paths[2].kind = "ok"
    /\ out_writable
    /\ ~written

(***************************************************************************)
(* Properties of the crop                                                  *)
(***************************************************************************)
\* k is round(n / d): the nearest integer, the even one on a tie.
IsRounded(k, n, d) ==
    \/ 2 * Abs(k * d - n) < d
    \/ (2 * Abs(k * d - n) = d /\ k % 2 = 0)

\* k is the floor of n / 2.
IsHalfFloor(k, n) == 2 * k <= n /\ n <= 2 * k + 1

\* C9: whenever the cropping branch is taken (w > 0, h > 0, aspect_w > 0,
\* aspect_h > 0) the crop box satisfies 0 <= left <= right <= w and
\* 0 <= top <= bottom <= h.
C9_BoxInsideImage ==
    crop_box # None =>
        LET b == crop_box[1]
        IN  /\ c_image.w > 0 /\ c_image.h > 0 /\ aspect_w > 0 /\ aspect_h > 0
            /\ 0 <= b[1] /\ b[1] <= b[3] /\ b[3] <= c_image.w
            /\ 0 <= b[2] /\ b[2] <= b[4] /\ b[4] <= c_image.h

C9_Witness ==
    /\ crop_box # None
    /\ c_image.w <= MaxDim
    /\ c_image.h <= MaxDim
    /\ crop_box[1][1] > 0
    /\ crop_box[1][3] < c_image.w

\* C10: an image wider than the target keeps its height and gets width
\* round(h * aspect_w / aspect_h), left = (w - new_w) // 2, top = 0; a taller
\* one keeps its width and gets height round(w * aspect_h / aspect_w),
\* top = (h - new_h) // 2, left = 0; 2000x1000 at 16:9 gives 1778x1000, left 111.
C10_CenteredCrop ==
    crop_box # None =>
        LET b == crop_box[1]
            w == c_image.w
            h == c_image.h
            new_w == b[3] - b[1]
            new_h == b[4] - b[2]
        IN  /\ w * aspect_h > aspect_w * h =>
                 /\ new_h = h /\ b[2] = 0
                 /\ IsRounded(new_w, h * aspect_w, aspect_h)
                 /\ IsHalfFloor(b[1], w - new_w)
            /\ w * aspect_h < aspect_w * h =>
                 /\ new_w = w /\ b[1] = 0
                 /\ IsRounded(new_h, w * aspect_h, aspect_w)
                 /\ IsHalfFloor(b[2], h - new_h)
            /\ (w = 2000 /\ h = 1000 /\ aspect_w = 16 /\ aspect_h = 9) =>
                 /\ b = <<111, 0, 1889, 1000>>
                 /\ (cpc = "done" /\ cresult # None) =>
                       c_files[cresult[1]] = Some(<<1778, 1000>>)

\* The call went through the "already close enough" branch of lines 114-119.
TookCloseBranch ==
    /\ cpc = "done"
    /\ c_deps_ok
    /\ c_image.kind = "ok" /\ c_image.w > 0 /\ c_image.h > 0
    /\ aspect_w > 0 /\ aspect_h > 0
    /\ Abs(c_image.w * aspect_h - aspect_w * c_image.h) * 10000 < c_image.h * aspect_h

\* Pixel size of the image found at a path after the call.
DimsAt(path) ==
    IF c_files[path] # None THEN c_files[path]
    ELSE IF path = ImagePath THEN Some(<<c_image.w, c_image.h>>)
    ELSE None

\* C11 as stated: within 1e-4 of the target no crop is computed, the source
\* file is not rewritten and the returned image has the source's pixel size,
\* for every inplace and output_path.
C11_Original ==
    TookCloseBranch =>
        /\ crop_box = None
        /\ c_files[ImagePath] = None
        /\ cresult # None => DimsAt(cresult[1]) = Some(<<c_image.w, c_image.h>>)

\* The near-ratio copy of lines 116-119 to a separate output_path is reachable.
NearRatioCopied ==
    /\ TookCloseBranch
    /\ c_image.w = 355 /\ c_image.h = 631
    /\ aspect_w = 9 /\ aspect_h = 16
    /\ ~inplace
    /\ cresult = Some("output_path")
    /\ c_files["output_path"] = Some(<<355, 631>>)
    /\ c_files[ImagePath] = None

\* C19: the crop returns None and writes no file when an aspect component is
\* not positive, when the image height is 0 or when the image cannot be
\* opened; the aspect components are checked before the image is opened.
C19_CropRejects ==
    /\ (aspect_w <= 0 \/ aspect_h <= 0) => (~c_opened /\ crop_box = None)
    /\ (/\ cpc = "done"
        /\ \/ aspect_w <= 0 \/ aspect_h <= 0
           \/ c_image.kind = "unreadable"
           \/ c_image.h = 0)
       => (cresult = None /\ c_files = NoFiles /\ crop_box = None)

C19_Witness ==
    /\ cpc = "done"
    /\ c_deps_ok
    /\ aspect_w > 0 /\ aspect_h <= 0
    /\ c_image.kind = "ok" /\ c_image.h > 0
    /\ cresult = None

\* The element at the head of the listing carries a URL the filter lets through.
HeadEligible ==
    /\ wallpaper_elements # <<>>
    /\ Head(wallpaper_elements) # StaleElement
    /\ Head(wallpaper_elements) # EmptyHref
    /\ Head(wallpaper_elements) \notin skip_urls
    /\ Head(wallpaper_elements) \notin CollectedUrls(collected)

\* A candidate has all four size fields or none of them.
SizeAllOrNone(c) ==
    \/ c.width = None /\ c.height = None /\ c.aspect_ratio = None
       /\ c.aspect_ratio_float = None
    \/ c.width # None /\ c.height # None /\ c.aspect_ratio # None
       /\ c.aspect_ratio_float # None

\* The steps of one iteration of the for loop of lines 67-89, unless an
\* interrupt cuts the iteration short.
ForLoopStep ==
    /\ (pc = "elems" /\ pc' # "finally") =>
          /\ collected' = collected
          /\ nFetches' = nFetches
          /\ IF Len(collected) < count /\ HeadEligible
             THEN pc' = "fetch" /\ wallpaper_elements' = wallpaper_elements
             ELSE /\ pc' \in {"elems", "loop"}
                  /\ Len(collected) >= count =>
                        (wallpaper_elements' = <<>> /\ pc' = "loop")
    /\ (pc = "fetch" /\ pc' # "finally") =>
          /\ pc' = "append"
          /\ nFetches' = nFetches + 1
          /\ collected' = collected
          /\ wallpaper_elements' = wallpaper_elements
    /\ (pc = "append" /\ pc' # "finally") =>
          /\ pc' = "elems"
          /\ Len(collected') = Len(collected) + 1
          /\ SubSeq(collected', 1, Len(collected)) = collected
          /\ collected'[Len(collected')].image_url = Head(wallpaper_elements)
          /\ nFetches' = nFetches
          /\ wallpaper_elements' = Tail(wallpaper_elements)

\* C18: below count every listed eligible URL is fetched and appended once, in
\* listing order, with or without its size (a failed fetch leaves the four
\* size fields absent); once count is reached nothing more is read and no
\* shuffle follows, and a call that is not interrupted has made one dimension
\* fetch per collected candidate.
C18_KeepsEveryEligible ==
    /\ [](/\ pending.kind # "raised" =>
                nFetches = Len(collected) + (IF pc = "append" THEN 1 ELSE 0)
          /\ pending.kind = "raised" =>
                nFetches \in {Len(collected), Len(collected) + 1}
          /\ outcome.kind = "returned" => nFetches = Len(outcome.value)
          /\ \A i \in 1..Len(collected) : SizeAllOrNone(collected[i])
          /\ \A i, j \in 1..Len(collected) :
                collected[i].image_url = collected[j].image_url => i = j
          /\ pc \in {"fetch", "append"} => HeadEligible
          /\ pc \in {"shuffle", "sleep", "list", "fetch", "append"}
                => Len(collected) < count)
    /\ [][ForLoopStep]_vars

C18_Witness ==
    /\ pc = "loop"
    /\ count = 2
    /\ Len(collected) = 2
    /\ collected[1].width = None /\ collected[1].aspect_ratio_float = None
    /\ collected[2].width # None
    /\ nFetches = 2
    /\ nShuffles = 1

(***************************************************************************)
(* Properties of the aspect-ratio reduction                                *)
(***************************************************************************)
\* The greatest common divisor, as the largest common divisor in 1..w.
LargestCommonDivisor(w, h) ==
    SetMax({d \in 1..w : w % d = 0 /\ h % d = 0})

Coprime(a, b) == \A d \in 2..a : ~(a % d = 0 /\ b % d = 0)

\* C12: for positive w and h both reductions return "a:b" with a = w / gcd and
\* b = h / gcd (a and b coprime, a * h = b * w); with a zero or missing
\* dimension both return None; 1920x1080 gives "16:9".
C12_ReducedRatio ==
    r_pc = "done" =>
        IF r_width = None \/ r_height = None \/ r_width = Some(0) \/ r_height = Some(0)
        THEN r_text = None /\ r_monitor = None
        ELSE LET w == r_width[1]
                 h == r_height[1]
                 a == w \div LargestCommonDivisor(w, h)
                 b == h \div LargestCommonDivisor(w, h)
             IN  /\ Coprime(a, b)
                 /\ a * h = b * w
                 /\ r_text = Some(ToString(a) \o ":" \o ToString(b))
                 /\ r_monitor = r_text
                 /\ (w = 1920 /\ h = 1080) => r_text = Some("16:9")

C12_Witness ==
    /\ r_pc = "done"
    /\ r_width = Some(1920) /\ r_height = Some(1080)
    /\ r_text = Some("16:9")
    /\ r_monitor = Some("16:9")

\* C13 as stated: 2560x1080 reduces to "64:45".
C13_Original ==
    (r_pc = "done" /\ r_width = Some(2560) /\ r_height = Some(1080)) =>
        (r_text = Some("64:45") /\ r_monitor = Some("64:45"))

\* C13 (amended): 2560x1080 reduces to "64:27".
C13_UltraWide ==
    (r_pc = "done" /\ r_width = Some(2560) /\ r_height = Some(1080)) =>
        (r_text = Some("64:27") /\ r_monitor = Some("64:27"))

C13_Witness ==
    /\ r_pc = "done"
    /\ r_width = Some(2560) /\ r_height = Some(1080)
    /\ r_text = Some("64:27") /\ r_monitor = Some("64:27")

(***************************************************************************)
(* Properties of the brightness check                                      *)
(***************************************************************************)
\* The mean of xs is at least t: the deviations from t add up to >= 0.
RECURSIVE Excess(_, _, _)
Excess(xs, t, i) == IF i = 0 THEN 0 ELSE (xs[i] - t) + Excess(xs, t, i - 1)
MeanAtLeast(xs, t) == Excess(xs, t, Len(xs)) >= 0

AllPixels(xs, v) == xs # <<>> /\ \A i \in 1..Len(xs) : xs[i] = v

\* C14: the result is true exactly when the mean of the examined values is
\* >= brightness_threshold; an all-255 image is too bright and an all-0 image
\* is not at threshold 200 whatever the sample; an unreadable image gives
\* False.
C14_BrightnessVerdict ==
    b_pc = "done" =>
        /\ b_result \in {Some(TRUE), Some(FALSE)}
        /\ ~b_readable => b_result = Some(FALSE)
        /\ (b_readable /\ pixels # <<>>) =>
              /\ b_result = Some(MeanAtLeast(pixels, brightness_threshold))
              /\ Len(pixels) = IF sample_size > 0 /\ sample_size < Len(b_image)
                               THEN sample_size ELSE Len(b_image)
        /\ (b_readable /\ brightness_threshold = 200 /\ AllPixels(b_image, 255))
              => b_result = Some(TRUE)
        /\ (b_readable /\ brightness_threshold = 200 /\ AllPixels(b_image, 0))
              => b_result = Some(FALSE)

C14_Witness ==
    /\ b_pc = "done"
    /\ b_readable
    /\ brightness_threshold = 200
    /\ b_image = <<145, 0, 255>>
    /\ sample_size = 2
    /\ pixels = <<145, 255>>
    /\ b_result = Some(TRUE)

(***************************************************************************)
(* Properties of the download history                                      *)
(***************************************************************************)
\* A URL string: not empty and free of whitespace.
IsUrl(u) == u # <<>> /\ \A i \in 1..Len(u) : u[i] \notin Whitespace

\* C15: with no prior file, append_history(path, U) for a set U of URL strings
\* followed by load_history(path) gives exactly U; load_history of a path that
\* does not exist gives the empty set.
C15_RoundTrip ==
    (h_pc = "done" /\ h_loaded # None /\ h_prior = None) =>
        /\ (h_appended /\ \A u \in urls : IsUrl(u)) => h_loaded = Some(urls)
        /\ h_file = None => h_loaded = Some({})

C15_Witness ==
    /\ h_pc = "done"
    /\ h_prior = None
    /\ h_appended
    /\ urls = {<<"a">>, <<"a", "a">>}
    /\ h_loaded = Some(urls)

\* C16 as stated: no failure of append_history reaches its caller.
C16_Original == ~h_raised

(***************************************************************************)
(* Properties of download_image                                            *)
(***************************************************************************)
\* The declared type is an image type: its top-level type is "image".
IsImageType(content_type) ==
    content_type # <<>> /\ LowerPiece(content_type[1]) = "image"

\* No file that existed before the call has been written.
ExistingUntouched == \A n \in d_taken : d_files[n] = "old"

\* A saved file has the first free name: base.ext, else the smallest base_k.ext.
SavedToFirstFree ==
    d_result # None =>
        /\ d_result[1] \notin d_taken
        /\ \A n \in 0..(d_result[1] - 1) : n \in d_taken
        /\ d_files[d_result[1]] = "new"

\* C17 as stated: existing files are never written, a taken name moves the
\* download to the smallest free base_k.ext, and a response whose declared
\* content type is not an image type gives None and creates no file.
C17_Original ==
    /\ ExistingUntouched
    /\ SavedToFirstFree
    /\ (d_pc = "done" /\ d_setup_ok /\ d_response.kind = "ok"
        /\ ~IsImageType(d_response.content_type))
       => (d_result = None /\ d_files = FilesOf(d_taken))

\* The part of C17 that holds whatever the content type is.
DownloadKeepsExisting == ExistingUntouched /\ SavedToFirstFree

DownloadRenamed ==
    /\ d_pc = "done"
    /\ d_taken = {0, 1}
    /\ d_result = Some(2)
    /\ d_files[0] = "old" /\ d_files[1] = "old" /\ d_files[2] = "new"

(***************************************************************************)
(* Properties of gather_monitors                                           *)
(***************************************************************************)
YieldsNothing(strat) == g_env[strat] = None \/ g_env[strat] = Some(<<>>)

\* The call tried the strategies of order, in that order, up to the first one
\* with a non-empty list, and returned that list, or [] when there is none.
FirstNonEmptyOf(order) ==
    /\ Len(g_tried) <= Len(order)
    /\ g_tried = SubSeq(order, 1, Len(g_tried))
    /\ \A i \in 1..(Len(g_tried) - 1) : YieldsNothing(g_tried[i])
    /\ IF g_result = Some(<<>>)
       THEN /\ g_tried = order
            /\ \A i \in 1..Len(order) : YieldsNothing(order[i])
       ELSE /\ g_tried # <<>>
            /\ g_result = g_env[g_tried[Len(g_tried)]]
            /\ g_result # None

\* C20 as stated: the order is screeninfo, Windows ctypes, Tkinter.
C20_Original ==
    g_pc = "done" => FirstNonEmptyOf(<<"screeninfo", "ctypes", "tkinter">>)

\* What the loop of lines 232-241 does with its four strategies: the order is
\* screeninfo, Windows WMI, Windows ctypes, Tkinter; the first non-empty list
\* is returned without running a later strategy, and [] is returned when
\* every strategy yields nothing.
FirstNonEmptyOfFour ==
    g_pc = "done" => FirstNonEmptyOf(<<"screeninfo", "wmi", "ctypes", "tkinter">>)

(***************************************************************************)
(* The size of the crop rectangle                                          *)
(***************************************************************************)
\* C21: for an image with w >= 1 and h >= 1 and a target with aspect_w >= 1
\* and aspect_h >= 1 the crop rectangle of lines 120-133 has new_w >= 1 and
\* new_h >= 1, and so has the image a successful crop saved.
C21_NonEmptyCrop ==
    (/\ crop_box # None
     /\ c_image.w >= 1 /\ c_image.h >= 1
     /\ aspect_w >= 1 /\ aspect_h >= 1) =>
        LET b == crop_box[1]
        IN  /\ b[3] - b[1] >= 1
            /\ b[4] - b[2] >= 1
            /\ (cpc = "done" /\ cresult # None) =>
                  /\ c_files[cresult[1]][1][1] >= 1
                  /\ c_files[cresult[1]][1][2] >= 1

\* The rectangle rounding leaves empty: a 1x1 image at 1:3 gets new_w = 0.
EmptyCropReached ==
    /\ crop_box = Some(<<0, 0, 0, 1>>)
    /\ c_image.w = 1 /\ c_image.h = 1
    /\ aspect_w = 1 /\ aspect_h = 3

====
